---- MODULE Spec2Model ----
(***************************************************************************)
(* FleetX vehicle location tracker (src/fleetx_tracker.py): the credential *)
(* lifecycle, the change detection, the history table and the polling loop *)
(* of FleetXTracker, as a state machine.                                   *)
(*                                                                         *)
(* Numbers are fixed-point: one unit is 0.00005, so the tolerance 0.0001   *)
(* of _has_data_changed is 2 units and a speed of 10 is 200000 units.      *)
(* Times are whole seconds.  A JSON / SQLite value is a record             *)
(* [t, n, s]: t is its type ("null", "num", "str"), n its number, s its    *)
(* text.  A Python Optional is a sequence of length 0 (None) or 1.         *)
(***************************************************************************)
EXTENDS Integers, Sequences, FiniteSets, TLC

\* ------------------------------------------------------------------ bounds

\* Rows the history table can hold; an INSERT into a full table fails with a
\* storage error (disk full).
MaxRows == 2
\* Seconds of wall-clock time, from process start, that the sleeps may reach.
Horizon == 610
\* Ceiling of the per-iteration counters of requests and logins.
MaxCount == 3

\* --------------------------------------------------------- program values

\* abs(new_val - old_val) > 0.0001, in units of 0.00005
Tolerance == 2
\* 12 * 3600 seconds: the age below which a saved token is reused
ValidityWindow == 12 * 3600
\* config.get('polling_interval_seconds', 300)
polling_interval == 300
\* time.sleep(2) between vehicles
VehicleDelay == 2
\* time.time() when the process starts
StartTime == ValidityWindow + 1

Null == [t |-> "null", n |-> 0, s |-> ""]
Num(k) == [t |-> "num", n |-> k, s |-> ""]
Str(x) == [t |-> "str", n |-> 0, s |-> x]

Abs(x) == IF x < 0 THEN -x ELSE x
Min(a, b) == IF a < b THEN a ELSE b

\* The token strings the login can yield; 0 stands for None.
Tokens == {1, 2}
NoToken == 0

\* vehicle_ids of config.json: one tracked vehicle, or a fleet of three
SingleConfig == <<42>>
FleetConfig == <<1, 2, 3>>

\* ------------------------------------------------------------- snapshots

\* The keys of a response body that the model follows: the identity key, three
\* numeric keys stored in REAL columns, a text key, the rpm key (TEXT column)
\* and a timestamp key that the comparison ignores.  Every other key of the
\* 40 is absent from the modelled bodies (data.get gives None for it).
Fields == {"vehicleId", "latitude", "longitude", "speed", "status", "rpm", "timeStamp"}

\* CREATE TABLE vehicle_location_history: the declared type of each column
ColumnType ==
  [vehicleId |-> "INTEGER", latitude |-> "REAL", longitude |-> "REAL",
   speed |-> "REAL", status |-> "TEXT", rpm |-> "TEXT", timeStamp |-> "TEXT"]

\* compare_fields of _has_data_changed, restricted to the modelled keys
compare_fields == {"latitude", "longitude", "speed", "status", "rpm"}

\* The numbers whose decimal text SQLite recognises in the modelled bodies.
NumDomain == {800, 200000, 200001, 200002, 200004, 500000}

\* SQLite column affinity, applied to a value bound to an INSERT: a number
\* stored in a TEXT column becomes its decimal text; a text that is a
\* well-formed number stored in an INTEGER or REAL column becomes the number;
\* everything else is stored as it is.
Affinity(type, v) ==
  IF type = "TEXT"
    THEN IF v.t = "num" THEN Str(ToString(v.n)) ELSE v
    ELSE IF v.t = "str" /\ \E k \in NumDomain : ToString(k) = v.s
           THEN Num(CHOOSE k \in NumDomain : ToString(k) = v.s)
           ELSE v

\* The column values of the row that the INSERT of store_location_data writes
\* for `data`, which is also what _get_last_record rebuilds from the row.
RowValues(data) == [f \in Fields |-> Affinity(ColumnType[f], data[f])]

\* The field test with >= for >: a difference of exactly 0.0001 is a change
FieldChanged_inclusive(new_val, old_val) ==
  IF new_val.t = "num" /\ old_val.t = "num"
    THEN Abs(new_val.n - old_val.n) >= Tolerance
    ELSE new_val # old_val

\* One field of the loop of _has_data_changed: tolerance when both values are
\* numbers, inequality otherwise.
FieldChanged(new_val, old_val) ==
  IF new_val.t = "num" /\ old_val.t = "num"
    THEN Abs(new_val.n - old_val.n) > Tolerance
    ELSE new_val # old_val

\* _has_data_changed without its first test: no previous record means no change
_has_data_changed_without_none(new_data, old_data) ==
  /\ old_data # <<>>
  /\ \E field \in compare_fields : FieldChanged(new_data[field], old_data[1][field])

\* _has_data_changed with the row count as the only test: every fetch after
\* the first is a duplicate
_has_data_changed_first_only(new_data, old_data) == old_data = <<>>

\* _has_data_changed(new_data, old_data); old_data is <<>> for None
_has_data_changed(new_data, old_data) ==
  \/ old_data = <<>>
  \/ \E field \in compare_fields : FieldChanged(new_data[field], old_data[1][field])

\* The snapshot of the end-to-end scenario: speed 10, latitude 1.0,
\* longitude 2.0, status RUNNING.
Base(v) ==
  [vehicleId |-> Num(v), latitude |-> Num(20000), longitude |-> Num(40000),
   speed |-> Num(200000), status |-> Str("RUNNING"), rpm |-> Null,
   timeStamp |-> Str("t1")]

\* The JSON objects the remote API may answer for the single vehicle v: the
\* base snapshot; its speed moved by 0.00005, 0.0001, 0.0002 or to 25; a
\* numeric rpm, alone and with the speed moved by 0.00005; another source
\* timestamp; no vehicleId.
SingleBodies(v) ==
  {[Base(v) EXCEPT !.speed = Num(sp)] : sp \in {200000, 200001, 200002, 200004, 500000}}
    \cup {[Base(v) EXCEPT !.rpm = Num(800), !.speed = Num(sp)] : sp \in {200000, 200001}}
    \cup {[Base(v) EXCEPT !.timeStamp = Str("t2")]}
    \cup {[Base(v) EXCEPT !.vehicleId = Null]}

\* The JSON objects the remote API may answer for vehicle v of the fleet: the
\* base snapshot and the base snapshot at speed 25.
FleetBodies(v) == {Base(v), [Base(v) EXCEPT !.speed = Num(500000)]}

Bodies(v) == IF v = SingleConfig[1] THEN SingleBodies(v) ELSE FleetBodies(v)

\* What fetch_vehicle_location returns: None (<<>>), a falsy JSON value such
\* as {} (kind "empty"), a JSON value that is no object (kind "other"), or a
\* JSON object (kind "dict").
NoData == [kind |-> "none", body |-> Base(0)]
EmptyJson == [kind |-> "empty", body |-> Base(0)]
OtherJson == [kind |-> "other", body |-> Base(0)]
Dict(b) == [kind |-> "dict", body |-> b]

\* `if data:` of run_periodic_fetch
Truthy(d) == d.kind \in {"dict", "other"}

\* ------------------------------------------------------------------ state

VARIABLES
  pc,            \* where run_periodic_fetch (or the call it is in) stands
  vehicle_ids,   \* self.config['vehicle_ids']
  idx,           \* position of the for loop in vehicle_ids
  access_token,  \* self.access_token
  token_file,    \* content of fleetx_token.json
  db,            \* rows of vehicle_location_history, in rowid order
  db_open,       \* self.db_conn is open
  now,           \* time.time(), whole seconds
  data,          \* the value fetch_vehicle_location returned
  cycle_no,      \* cycles begun (history variable)
  iterRequests,  \* GET requests sent in the current entity iteration
  iterLogins,    \* login_with_selenium calls in the current entity iteration
  exit_cause,    \* why run_periodic_fetch left its loop
  last_result,   \* how the last finished entity iteration ended
  fetched_in_cycle, \* positions of vehicle_ids requested in this cycle
  failed_in_cycle,  \* positions whose fetch failed (network, parse) in this cycle
  scenario,      \* how far the run follows the end-to-end scenario
  token_time,    \* when the token last held was saved or acquired (history variable)
  calls          \* calls made outside run_periodic_fetch: those of concurrent
                 \* users of the tracker, by thread, or one call of a method

vars == <<pc, vehicle_ids, idx, access_token, token_file, db, db_open, now, data,
          cycle_no, iterRequests, iterLogins, exit_cause, last_result,
          fetched_in_cycle, failed_in_cycle, scenario, token_time, calls>>

\* fleetx_token.json: absent, not parseable, or an object
NoFile == [kind |-> "absent", access_token |-> NoToken, saved_at |-> 0]
BadFile == [kind |-> "corrupt", access_token |-> NoToken, saved_at |-> 0]
TokenFile(tok, at) == [kind |-> "json", access_token |-> tok, saved_at |-> at]
\* a JSON object whose saved_at is no number ("yesterday", null)
MistypedFile(tok) == [kind |-> "mistyped", access_token |-> tok, saved_at |-> 0]
\* the file right after open(self.token_file, 'w'): truncated, nothing written
EmptyFile == [kind |-> "empty", access_token |-> NoToken, saved_at |-> 0]

\* The token files a process may find when it starts: none, an unparseable
\* one, one whose saved_at is no number, or one saved 12 h - 1 s, 12 h or
\* 12 h + 1 s before.
InitialFiles ==
  {NoFile, BadFile, MistypedFile(1)}
    \cup {TokenFile(1, StartTime - age) :
            age \in {ValidityWindow - 1, ValidityWindow, ValidityWindow + 1}}

\* The state before the constructor runs, for the configuration `config` and
\* a history table among `tables`
InitState(config, tables) ==
  /\ pc = "new"
  /\ vehicle_ids = config
  /\ idx = 1
  /\ access_token = NoToken
  /\ token_file \in InitialFiles
  /\ db \in tables
  /\ db_open = FALSE
  /\ now = StartTime
  /\ data = NoData
  /\ cycle_no = 0
  /\ iterRequests = 0
  /\ iterLogins = 0
  /\ exit_cause = "none"
  /\ last_result = "none"
  /\ fetched_in_cycle = {}
  /\ failed_in_cycle = {}
  /\ scenario = "start"
  /\ token_time = 0
  /\ calls = <<>>

\* The state before the constructor runs on a new database
InitWith(config) == InitState(config, {<<>>})

Init == InitWith(SingleConfig)

InitFleet == InitWith(FleetConfig)

\* ------------------------------------------------------- credential store

\* _load_saved_token with <= for <: a token of exactly 12 hours is reused
LoadedToken_inclusive(file, t) ==
  CASE file.kind = "json" ->
         IF t - file.saved_at <= ValidityWindow THEN file.access_token ELSE NoToken
    [] file.kind = "mistyped" -> file.access_token
    [] OTHER -> NoToken

\* _load_saved_token: the token the constructor holds after reading `file`
\* at time t.  An absent or unparseable file leaves None; a parsed file gives
\* its access_token when time.time() - saved_at < 12 * 3600, None otherwise.
\* self.access_token is assigned (line 62) before the age is computed: when
\* saved_at is no number the subtraction raises, the handler only logs, and
\* the token stays.
LoadedToken(file, t) ==
  CASE file.kind = "json" ->
         IF t - file.saved_at < ValidityWindow THEN file.access_token ELSE NoToken
    [] file.kind = "mistyped" -> file.access_token
    [] OTHER -> NoToken

\* _save_token, line 81: open(self.token_file, 'w') truncates the file, or
\* fails and leaves it untouched (only logged)
OpenOutcomes == {"opened", "open_failed"}
OpenedFile(file, outcome) == IF outcome = "opened" THEN EmptyFile ELSE file

\* _save_token, line 82 and the end of the with block: json.dump and close
\* write the object, or fail part-way and leave an unparseable file (only
\* logged)
WriteOutcomes == {"saved", "write_failed"}
WrittenFile(tok, t, outcome) == IF outcome = "saved" THEN TokenFile(tok, t) ELSE BadFile

\* __init__: _setup_database, then _load_saved_token
Construct ==
  /\ pc = "new"
  /\ pc' = "constructed"
  /\ db_open' = TRUE
  /\ access_token' = LoadedToken(token_file, now)
  /\ token_time' = CASE token_file.kind = "json" -> token_file.saved_at
                      [] token_file.kind = "mistyped" -> now
                      [] OTHER -> 0
  /\ UNCHANGED <<vehicle_ids, idx, token_file, db, now, data, cycle_no,
                 iterRequests, iterLogins, exit_cause, last_result>>
  /\ UNCHANGED <<fetched_in_cycle, failed_in_cycle, scenario, calls>>

\* --------------------------------------------------------- history store

\* WHERE vehicle_id = ?: NULL matches nothing; the parameter takes the
\* column's affinity.
RowMatches(row, vehicle_id) ==
  /\ vehicle_id.t # "null"
  /\ row.cols.vehicleId = Affinity(ColumnType.vehicleId, vehicle_id)

MatchingRows(vehicle_id) == {i \in 1..Len(db) : RowMatches(db[i], vehicle_id)}

\* _get_last_record: ORDER BY fetch_timestamp DESC LIMIT 1 gives a row of the
\* greatest fetch_timestamp; among rows of one second SQLite may give any.
\* The result is the dict rebuilt from the row, or None.
LastRecords(vehicle_id) ==
  IF MatchingRows(vehicle_id) = {}
    THEN {<<>>}
    ELSE {<<db[i].cols>> :
            i \in {j \in MatchingRows(vehicle_id) :
                     \A k \in MatchingRows(vehicle_id) :
                       db[k].fetch_timestamp <= db[j].fetch_timestamp}}

\* The INSERT as an INSERT OR REPLACE keyed by the vehicle: the vehicle's row
\* is overwritten
Inserted_or_replace(d) ==
  IF \E i \in 1..Len(db) : db[i].cols.vehicleId = RowValues(d).vehicleId
    THEN [i \in 1..Len(db) |->
            IF db[i].cols.vehicleId = RowValues(d).vehicleId
              THEN [id |-> Len(db) + 1, fetch_timestamp |-> now,
                    cols |-> RowValues(d), fetched |-> d]
              ELSE db[i]]
    ELSE Append(db, [id |-> Len(db) + 1, fetch_timestamp |-> now,
                     cols |-> RowValues(d), fetched |-> d])

\* The table after the INSERT and commit of store_location_data.  A row is
\* its AUTOINCREMENT id, its CURRENT_TIMESTAMP and its column values; `fetched`
\* (a history field, no column) keeps the object the row was written from.
Inserted(d) ==
  Append(db, [id |-> Len(db) + 1, fetch_timestamp |-> now, cols |-> RowValues(d),
              fetched |-> d])

\* ---------------------------------------------------- run_periodic_fetch

Bump(c) == Min(c + 1, MaxCount)

\* The end-to-end scenario of the specification: the first three iterations
\* fetch the base snapshot, the base snapshot again, then the base snapshot at
\* speed 25.  ScenarioAfter follows a run along it; any other iteration
\* leaves it.
ScenarioAfter(sc, body) ==
  CASE sc = "start" /\ body = Base(SingleConfig[1]) -> "A"
    [] sc = "A" /\ body = Base(SingleConfig[1]) -> "AA"
    [] sc = "AA" /\ body = [Base(SingleConfig[1]) EXCEPT !.speed = Num(500000)] -> "AAB"
    [] OTHER -> "off"

\* run_periodic_fetch, lines 477-483: a token is held
StartWithToken ==
  /\ pc = "constructed"
  /\ access_token # NoToken
  /\ pc' = "cycle"
  /\ UNCHANGED <<vehicle_ids, idx, access_token, token_file, db, db_open, now, data,
                 cycle_no, iterRequests, iterLogins, exit_cause, last_result>>
  /\ UNCHANGED <<fetched_in_cycle, failed_in_cycle, scenario>>
  /\ UNCHANGED <<token_time, calls>>

\* Where login_with_selenium returns to: run_periodic_fetch before its loop,
\* or the retry of fetch_vehicle_location
AfterLogin == IF cycle_no = 0 THEN "cycle" ELSE "fetch"

\* The login at startup without the test of self.access_token
InitialLogin_always ==
  /\ pc = "constructed"
  /\ \E tok \in Tokens, outcome \in OpenOutcomes :
       /\ access_token' = tok
       /\ token_file' = OpenedFile(token_file, outcome)
       /\ pc' = IF outcome = "opened" THEN "saving" ELSE AfterLogin
  /\ token_time' = now
  /\ UNCHANGED <<vehicle_ids, idx, db, db_open, now, data, cycle_no,
                 iterRequests, iterLogins, exit_cause, last_result>>
  /\ UNCHANGED <<fetched_in_cycle, failed_in_cycle, scenario, calls>>

\* run_periodic_fetch, lines 477-479: no token; login_with_selenium gets one
\* and _save_token opens the token file
InitialLogin ==
  /\ pc = "constructed"
  /\ access_token = NoToken
  /\ \E tok \in Tokens, outcome \in OpenOutcomes :
       /\ access_token' = tok
       /\ token_file' = OpenedFile(token_file, outcome)
       /\ pc' = IF outcome = "opened" THEN "saving" ELSE AfterLogin
  /\ token_time' = now
  /\ UNCHANGED <<vehicle_ids, idx, db, db_open, now, data, cycle_no,
                 iterRequests, iterLogins, exit_cause, last_result>>
  /\ UNCHANGED <<fetched_in_cycle, failed_in_cycle, scenario, calls>>

\* _save_token, lines 82-85: the token is written to the opened file and
\* login_with_selenium returns True
SaveTokenWrite ==
  /\ pc = "saving"
  /\ \E outcome \in WriteOutcomes :
       token_file' = WrittenFile(access_token, token_time, outcome)
  /\ pc' = AfterLogin
  /\ UNCHANGED <<vehicle_ids, idx, access_token, db, db_open, now, data, cycle_no,
                 iterRequests, iterLogins, exit_cause, last_result>>
  /\ UNCHANGED <<fetched_in_cycle, failed_in_cycle, scenario, token_time, calls>>

\* run_periodic_fetch, lines 479-481: the initial login fails and the method
\* returns before its try block
InitialLoginFails ==
  /\ pc = "constructed"
  /\ access_token = NoToken
  /\ pc' = "returned"
  /\ exit_cause' = "login_failed"
  /\ UNCHANGED <<vehicle_ids, idx, access_token, token_file, db, db_open, now, data,
                 cycle_no, iterRequests, iterLogins, last_result>>
  /\ UNCHANGED <<fetched_in_cycle, failed_in_cycle, scenario>>
  /\ UNCHANGED <<token_time, calls>>

\* top of `while True`: the for loop starts over
BeginCycle ==
  /\ pc = "cycle"
  /\ cycle_no' = cycle_no + 1
  /\ idx' = 1
  /\ iterRequests' = 0
  /\ iterLogins' = 0
  /\ pc' = IF Len(vehicle_ids) = 0 THEN "sleep" ELSE "fetch"
  /\ UNCHANGED <<vehicle_ids, access_token, token_file, db, db_open, now, data,
                 exit_cause, last_result>>
  /\ fetched_in_cycle' = {}
  /\ failed_in_cycle' = {}
  /\ UNCHANGED scenario
  /\ UNCHANGED <<token_time, calls>>

\* fetch_vehicle_location: status 200 and a body that decodes
Fetch200 ==
  /\ pc = "fetch"
  /\ \E d \in {Dict(b) : b \in Bodies(vehicle_ids[idx])} \cup {EmptyJson, OtherJson} :
       data' = d
  /\ iterRequests' = Bump(iterRequests)
  /\ pc' = "fetched"
  /\ UNCHANGED <<vehicle_ids, idx, access_token, token_file, db, db_open, now,
                 cycle_no, iterLogins, exit_cause, last_result>>
  /\ fetched_in_cycle' = fetched_in_cycle \cup {idx}
  /\ UNCHANGED <<failed_in_cycle, scenario>>
  /\ UNCHANGED <<token_time, calls>>

\* The 401/403 branch without os.remove: the token file stays
FetchAuthFailed_keeps_file ==
  /\ pc = "fetch"
  /\ iterRequests' = Bump(iterRequests)
  /\ access_token' = NoToken
  /\ pc' = "relogin"
  /\ fetched_in_cycle' = fetched_in_cycle \cup {idx}
  /\ UNCHANGED <<vehicle_ids, idx, token_file, db, db_open, now, data, cycle_no,
                 iterLogins, exit_cause, last_result>>
  /\ UNCHANGED <<failed_in_cycle, scenario, token_time, calls>>

\* fetch_vehicle_location, lines 271-276: status 401 or 403; the token is
\* cleared and the token file removed
FetchAuthFailed ==
  /\ pc = "fetch"
  /\ iterRequests' = Bump(iterRequests)
  /\ access_token' = NoToken
  /\ token_file' = NoFile
  /\ pc' = "relogin"
  /\ UNCHANGED <<vehicle_ids, idx, db, db_open, now, data, cycle_no,
                 iterLogins, exit_cause, last_result>>
  /\ fetched_in_cycle' = fetched_in_cycle \cup {idx}
  /\ UNCHANGED <<failed_in_cycle, scenario, token_time, calls>>

\* fetch_vehicle_location, lines 278-280: login_with_selenium gets a token,
\* _save_token opens the token file; once the login has returned the method
\* calls itself again
ReloginOk ==
  /\ pc = "relogin"
  /\ iterLogins' = Bump(iterLogins)
  /\ \E tok \in Tokens, outcome \in OpenOutcomes :
       /\ access_token' = tok
       /\ token_file' = OpenedFile(token_file, outcome)
       /\ pc' = IF outcome = "opened" THEN "saving" ELSE AfterLogin
  /\ token_time' = now
  /\ UNCHANGED <<vehicle_ids, idx, db, db_open, now, data, cycle_no,
                 iterRequests, exit_cause, last_result>>
  /\ UNCHANGED <<fetched_in_cycle, failed_in_cycle, scenario, calls>>

\* fetch_vehicle_location, lines 278 and 281: login_with_selenium fails
ReloginFails ==
  /\ pc = "relogin"
  /\ iterLogins' = Bump(iterLogins)
  /\ data' = NoData
  /\ last_result' = "AuthFailed"
  /\ pc' = "fetched"
  /\ UNCHANGED <<vehicle_ids, idx, access_token, token_file, db, db_open, now,
                 cycle_no, iterRequests, exit_cause>>
  /\ UNCHANGED <<fetched_in_cycle, failed_in_cycle, scenario>>
  /\ UNCHANGED <<token_time, calls>>

\* The failure branches of fetch_vehicle_location without their `except`: the
\* error leaves the method and the loop
FetchRaises(result) ==
  /\ pc = "fetch"
  /\ iterRequests' = Bump(iterRequests)
  /\ last_result' = result
  /\ exit_cause' = "error"
  /\ db_open' = FALSE
  /\ pc' = "returned"
  /\ fetched_in_cycle' = fetched_in_cycle \cup {idx}
  /\ failed_in_cycle' = failed_in_cycle \cup {idx}
  /\ UNCHANGED <<vehicle_ids, idx, access_token, token_file, db, now, data,
                 cycle_no, iterLogins, scenario>>
  /\ UNCHANGED <<token_time, calls>>

\* The failure branches of fetch_vehicle_location taking the path of the
\* 401/403 branch: token cleared, file removed, login
FetchReturnsNone_reauthenticating(result) ==
  /\ pc = "fetch"
  /\ iterRequests' = Bump(iterRequests)
  /\ access_token' = NoToken
  /\ token_file' = NoFile
  /\ last_result' = result
  /\ pc' = "relogin"
  /\ fetched_in_cycle' = fetched_in_cycle \cup {idx}
  /\ failed_in_cycle' = failed_in_cycle \cup {idx}
  /\ UNCHANGED <<vehicle_ids, idx, db, db_open, now, data, cycle_no,
                 iterLogins, exit_cause, scenario, token_time, calls>>

\* What the three failure branches of fetch_vehicle_location share: log,
\* return None
FetchReturnsNone(result) ==
  /\ pc = "fetch"
  /\ iterRequests' = Bump(iterRequests)
  /\ data' = NoData
  /\ last_result' = result
  /\ pc' = "fetched"
  /\ UNCHANGED <<vehicle_ids, idx, access_token, token_file, db, db_open, now,
                 cycle_no, iterLogins, exit_cause>>
  /\ fetched_in_cycle' = fetched_in_cycle \cup {idx}
  /\ failed_in_cycle' = failed_in_cycle \cup {idx}
  /\ UNCHANGED scenario
  /\ UNCHANGED <<token_time, calls>>

\* fetch_vehicle_location, lines 282-285: any other status
FetchHttpError == FetchReturnsNone("NetworkFailed")

\* fetch_vehicle_location, lines 287-291: session.get raises (timeout,
\* connection error)
FetchTimeout == FetchReturnsNone("NetworkFailed")

\* fetch_vehicle_location, lines 268 and 287-291: response.json() raises
FetchDecodeError == FetchReturnsNone("ParseFailed")

\* run_periodic_fetch, lines 499-502: `if data:` is false.  (`data` is dead
\* once the body of the for loop has run: the model forgets it there.)
NoDataRetrieved ==
  /\ pc = "fetched"
  /\ ~Truthy(data)
  /\ last_result' = IF data.kind = "empty" THEN "NoData" ELSE last_result
  /\ data' = NoData
  /\ pc' = "pause"
  /\ UNCHANGED <<vehicle_ids, idx, access_token, token_file, db, db_open, now,
                 cycle_no, iterRequests, iterLogins, exit_cause>>
  /\ scenario' = "off"
  /\ UNCHANGED <<fetched_in_cycle, failed_in_cycle>>
  /\ UNCHANGED <<token_time, calls>>

\* store_location_data with _get_last_record answering from the table: the
\* row is skipped when nothing changed, inserted and committed otherwise
StoreLocationData ==
  /\ pc = "fetched"
  /\ data.kind = "dict"
  /\ \E last_record \in LastRecords(data.body.vehicleId) :
       IF _has_data_changed(data.body, last_record)
         THEN /\ Len(db) < MaxRows
              /\ db' = Inserted(data.body)
              /\ last_result' = "Stored"
         ELSE /\ db' = db
              /\ last_result' = "Skipped"
  /\ data' = NoData
  /\ pc' = "pause"
  /\ UNCHANGED <<vehicle_ids, idx, access_token, token_file, db_open, now,
                 cycle_no, iterRequests, iterLogins, exit_cause>>
  /\ scenario' = ScenarioAfter(scenario, data.body)
  /\ UNCHANGED <<fetched_in_cycle, failed_in_cycle>>
  /\ UNCHANGED <<token_time, calls>>

\* store_location_data with _get_last_record failing (lines 359-361: it logs
\* and returns None), the INSERT succeeding
StoreAfterFailedRead ==
  /\ pc = "fetched"
  /\ data.kind = "dict"
  /\ Len(db) < MaxRows
  /\ db' = Inserted(data.body)
  /\ last_result' = "StoredBlind"
  /\ data' = NoData
  /\ pc' = "pause"
  /\ UNCHANGED <<vehicle_ids, idx, access_token, token_file, db_open, now,
                 cycle_no, iterRequests, iterLogins, exit_cause>>
  /\ scenario' = "off"
  /\ UNCHANGED <<fetched_in_cycle, failed_in_cycle>>
  /\ UNCHANGED <<token_time, calls>>

\* store_location_data, lines 468-470: data.get, the INSERT or the commit
\* raises; the transaction is rolled back
StoreFails ==
  /\ pc = "fetched"
  /\ Truthy(data)
  /\ last_result' = "StorageFailed"
  /\ data' = NoData
  /\ pc' = "pause"
  /\ UNCHANGED <<vehicle_ids, idx, access_token, token_file, db, db_open, now,
                 cycle_no, iterRequests, iterLogins, exit_cause>>
  /\ scenario' = "off"
  /\ UNCHANGED <<fetched_in_cycle, failed_in_cycle>>
  /\ UNCHANGED <<token_time, calls>>

\* cleanup: the connection is closed
cleanup == db_open' = FALSE

\* store_location_data, line 470: rollback raises too; the exception leaves
\* store_location_data and the loop, run_periodic_fetch logs it (lines
\* 512-515) and runs cleanup
StoreRollbackFails ==
  /\ pc = "fetched"
  /\ Truthy(data)
  /\ last_result' = "StorageFailed"
  /\ exit_cause' = "error"
  /\ cleanup
  /\ pc' = "returned"
  /\ UNCHANGED <<vehicle_ids, idx, access_token, token_file, db, now, data,
                 cycle_no, iterRequests, iterLogins>>
  /\ scenario' = "off"
  /\ UNCHANGED <<fetched_in_cycle, failed_in_cycle>>
  /\ UNCHANGED <<token_time, calls>>

\* time.sleep(2) after a vehicle, then the next vehicle or the end of the for
\* loop
SleepBetweenVehicles ==
  /\ pc = "pause"
  /\ now + VehicleDelay <= StartTime + Horizon
  /\ now' = now + VehicleDelay
  /\ IF idx < Len(vehicle_ids)
       THEN /\ idx' = idx + 1
            /\ pc' = "fetch"
       ELSE /\ idx' = idx
            /\ pc' = "sleep"
  /\ iterRequests' = 0
  /\ iterLogins' = 0
  /\ UNCHANGED <<vehicle_ids, access_token, token_file, db, db_open, data,
                 cycle_no, exit_cause, last_result>>
  /\ UNCHANGED <<fetched_in_cycle, failed_in_cycle, scenario>>
  /\ UNCHANGED <<token_time, calls>>

\* The end of the for loop without time.sleep(polling_interval)
CycleSleep_without_sleep ==
  /\ pc = "sleep"
  /\ pc' = "cycle"
  /\ UNCHANGED <<vehicle_ids, idx, access_token, token_file, db, db_open, now, data,
                 cycle_no, iterRequests, iterLogins, exit_cause, last_result>>
  /\ UNCHANGED <<fetched_in_cycle, failed_in_cycle, scenario>>
  /\ UNCHANGED <<token_time, calls>>

\* time.sleep(polling_interval) after the for loop
CycleSleep ==
  /\ pc = "sleep"
  /\ now + polling_interval <= StartTime + Horizon
  /\ now' = now + polling_interval
  /\ pc' = "cycle"
  /\ UNCHANGED <<vehicle_ids, idx, access_token, token_file, db, db_open, data,
                 cycle_no, iterRequests, iterLogins, exit_cause, last_result>>
  /\ UNCHANGED <<fetched_in_cycle, failed_in_cycle, scenario>>
  /\ UNCHANGED <<token_time, calls>>

InLoop ==
  \/ pc \in {"cycle", "fetch", "relogin", "fetched", "pause", "sleep"}
  \/ pc = "saving" /\ cycle_no > 0

\* run_periodic_fetch, lines 510-515: KeyboardInterrupt inside the try block
KeyboardInterrupt ==
  /\ InLoop
  /\ exit_cause' = "cancel"
  /\ cleanup
  /\ pc' = "returned"
  /\ UNCHANGED <<vehicle_ids, idx, access_token, token_file, db, now, data,
                 cycle_no, iterRequests, iterLogins, last_result>>
  /\ UNCHANGED <<fetched_in_cycle, failed_in_cycle, scenario>>
  /\ UNCHANGED <<token_time, calls>>

\* The steps the process takes by itself
Program ==
  \/ Construct
  \/ StartWithToken
  \/ InitialLogin
  \/ SaveTokenWrite
  \/ InitialLoginFails
  \/ BeginCycle
  \/ Fetch200
  \/ FetchAuthFailed
  \/ ReloginOk
  \/ ReloginFails
  \/ FetchHttpError
  \/ FetchTimeout
  \/ FetchDecodeError
  \/ NoDataRetrieved
  \/ StoreLocationData
  \/ StoreAfterFailedRead
  \/ StoreFails
  \/ StoreRollbackFails
  \/ SleepBetweenVehicles
  \/ CycleSleep

Next == Program \/ KeyboardInterrupt

Spec == Init /\ [][Next]_vars

\* The process is never suspended for ever: while one of its own steps is
\* possible, one is taken.  What the remote API answers is left free.
FairSpec == Spec /\ WF_vars(Program)

SpecFleet == InitFleet /\ [][Next]_vars

\* ------------------------------------------------- concurrent callers
\* run_periodic_fetch calls fetch_vehicle_location and store_location_data
\* from one thread.  The methods are public, they share self.access_token,
\* the token file and one connection opened with check_same_thread=False,
\* and they take no lock.  What follows is the same code, statement by
\* statement, with two threads each running the body of the for loop once
\* on one tracker.

Threads == {1, 2}

\* A thread's call: where it stands, its vehicle_id, the token its request
\* carried, the `data` it got, the last_record it read, whether it inserted
Idle ==
  [at |-> "idle", vehicle |-> 0, token |-> NoToken, data |-> NoData,
   last_record |-> <<>>, inserted |-> FALSE]

\* What a thread's step leaves alone of the scheduler's own state
SchedulerVars ==
  <<pc, vehicle_ids, idx, db_open, now, data, cycle_no, iterRequests, iterLogins,
    exit_cause, last_result, fetched_in_cycle, failed_in_cycle, scenario>>

\* A constructed tracker that holds a fresh token, its table empty
InitThreads ==
  /\ pc = "constructed"
  /\ vehicle_ids = FleetConfig
  /\ idx = 1
  /\ access_token \in Tokens
  /\ token_file = TokenFile(access_token, StartTime)
  /\ token_time = StartTime
  /\ db = <<>>
  /\ db_open = TRUE
  /\ now = StartTime
  /\ data = NoData
  /\ cycle_no = 0
  /\ iterRequests = 0
  /\ iterLogins = 0
  /\ exit_cause = "none"
  /\ last_result = "none"
  /\ fetched_in_cycle = {}
  /\ failed_in_cycle = {}
  /\ scenario = "off"
  /\ calls = [t \in Threads |-> Idle]

\* line 497: data = self.fetch_vehicle_location(vehicle_id)
ThreadCall(t) ==
  /\ calls[t].at = "idle"
  /\ \E i \in 1..2 :
       calls' = [calls EXCEPT ![t].at = "request", ![t].vehicle = vehicle_ids[i]]
  /\ UNCHANGED <<access_token, token_file, token_time, db>>
  /\ UNCHANGED SchedulerVars

\* fetch_vehicle_location, lines 257-266: the Authorization header is built
\* from self.access_token and the request is sent
ThreadSend(t) ==
  /\ calls[t].at = "request"
  /\ calls' = [calls EXCEPT ![t].at = "waiting", ![t].token = access_token]
  /\ UNCHANGED <<access_token, token_file, token_time, db>>
  /\ UNCHANGED SchedulerVars

\* fetch_vehicle_location, lines 267-270: status 200
ThreadFetch200(t) ==
  /\ calls[t].at = "waiting"
  /\ \E b \in FleetBodies(calls[t].vehicle) :
       calls' = [calls EXCEPT ![t].at = "store", ![t].data = Dict(b)]
  /\ UNCHANGED <<access_token, token_file, token_time, db>>
  /\ UNCHANGED SchedulerVars

\* fetch_vehicle_location, lines 271-276: status 401 or 403
ThreadFetchAuthFailed(t) ==
  /\ calls[t].at = "waiting"
  /\ access_token' = NoToken
  /\ token_file' = NoFile
  /\ calls' = [calls EXCEPT ![t].at = "login"]
  /\ UNCHANGED <<token_time, db>>
  /\ UNCHANGED SchedulerVars

\* fetch_vehicle_location, lines 278-280: login_with_selenium succeeds (the
\* two steps of _save_token taken together) and the method calls itself
ThreadReloginOk(t) ==
  /\ calls[t].at = "login"
  /\ \E tok \in Tokens, opened \in OpenOutcomes, written \in WriteOutcomes :
       /\ access_token' = tok
       /\ token_file' = IF opened = "opened"
                          THEN WrittenFile(tok, now, written)
                          ELSE token_file
  /\ token_time' = now
  /\ calls' = [calls EXCEPT ![t].at = "request"]
  /\ UNCHANGED db
  /\ UNCHANGED SchedulerVars

\* fetch_vehicle_location: login_with_selenium fails (lines 278, 281), another
\* status (lines 282-285) or an exception (lines 287-291): None is returned
\* and `if data:` fails
ThreadFetchReturnsNone(t) ==
  /\ calls[t].at \in {"waiting", "login"}
  /\ calls' = [calls EXCEPT ![t].at = "done"]
  /\ UNCHANGED <<access_token, token_file, token_time, db>>
  /\ UNCHANGED SchedulerVars

\* store_location_data, line 396: last_record = self._get_last_record(...)
ThreadGetLastRecord(t) ==
  /\ calls[t].at = "store"
  /\ \E last_record \in LastRecords(calls[t].data.body.vehicleId) :
       calls' = [calls EXCEPT ![t].at = "compare", ![t].last_record = last_record]
  /\ UNCHANGED <<access_token, token_file, token_time, db>>
  /\ UNCHANGED SchedulerVars

\* store_location_data, lines 399-466: the comparison, then return or INSERT
\* and commit
ThreadStore(t) ==
  /\ calls[t].at = "compare"
  /\ IF _has_data_changed(calls[t].data.body, calls[t].last_record)
       THEN /\ Len(db) < MaxRows
            /\ db' = Inserted(calls[t].data.body)
            /\ calls' = [calls EXCEPT ![t].at = "done", ![t].inserted = TRUE]
       ELSE /\ db' = db
            /\ calls' = [calls EXCEPT ![t].at = "done"]
  /\ UNCHANGED <<access_token, token_file, token_time>>
  /\ UNCHANGED SchedulerVars

\* store_location_data, lines 468-470: an exception, rolled back
ThreadStoreFails(t) ==
  /\ calls[t].at \in {"store", "compare"}
  /\ calls' = [calls EXCEPT ![t].at = "done"]
  /\ UNCHANGED <<access_token, token_file, token_time, db>>
  /\ UNCHANGED SchedulerVars

NextThreads ==
  \E t \in Threads :
    \/ ThreadCall(t)
    \/ ThreadSend(t)
    \/ ThreadFetch200(t)
    \/ ThreadFetchAuthFailed(t)
    \/ ThreadReloginOk(t)
    \/ ThreadFetchReturnsNone(t)
    \/ ThreadGetLastRecord(t)
    \/ ThreadStore(t)
    \/ ThreadStoreFails(t)

SpecThreads == InitThreads /\ [][NextThreads]_vars

\* ------------------------------------------------------ a second run
\* fleetx_data.db outlives the process.  The table a run may find when it
\* starts: a new one, or the row that a run stopped a moment ago wrote for
\* the base snapshot within the second in which this run starts.
LeftTables ==
  {<<>>,
   <<[id |-> 1, fetch_timestamp |-> StartTime,
      cols |-> RowValues(Base(SingleConfig[1])), fetched |-> Base(SingleConfig[1])]>>}

InitRestart == InitState(SingleConfig, LeftTables)

SpecRestart == InitRestart /\ [][Next]_vars

\* ------------------------------------------- _has_data_changed, called alone
\* The snapshots given to _has_data_changed: the base snapshot with its speed
\* moved by 0, 0.00005, 0.0001, 0.00015 or 0.0002, its latitude by 0 or
\* 0.00015, another status, rpm absent, a number or its text, another source
\* timestamp, another vehicleId.
Snapshots ==
  {[vehicleId |-> Num(v), latitude |-> Num(la), longitude |-> Num(40000),
    speed |-> Num(sp), status |-> Str(st), rpm |-> r, timeStamp |-> Str(ts)] :
     v \in {SingleConfig[1], FleetConfig[1]}, la \in {20000, 20003},
     sp \in {200000, 200001, 200002, 200003, 200004},
     st \in {"RUNNING", "STOPPED"}, r \in {Null, Num(800), Str("800")},
     ts \in {"t1", "t2"}}

\* A tracker on which _has_data_changed(new_data, old_data) is about to be
\* called
InitCompare ==
  /\ pc = "constructed"
  /\ vehicle_ids = SingleConfig
  /\ idx = 1
  /\ access_token \in Tokens
  /\ token_file = TokenFile(access_token, StartTime)
  /\ token_time = StartTime
  /\ db = <<>>
  /\ db_open = TRUE
  /\ now = StartTime
  /\ data = NoData
  /\ cycle_no = 0
  /\ iterRequests = 0
  /\ iterLogins = 0
  /\ exit_cause = "none"
  /\ last_result = "none"
  /\ fetched_in_cycle = {}
  /\ failed_in_cycle = {}
  /\ scenario = "off"
  /\ calls \in {[new_data |-> n, old_data |-> o, result |-> <<>>] :
                  n \in Snapshots, o \in {<<>>} \cup {<<x>> : x \in Snapshots}}

\* The call returns; result is <<>> before, <<value>> after
CallHasDataChanged ==
  /\ calls.result = <<>>
  /\ calls' = [calls EXCEPT
                !.result = <<_has_data_changed(calls.new_data, calls.old_data)>>]
  /\ UNCHANGED <<access_token, token_file, token_time, db>>
  /\ UNCHANGED SchedulerVars

SpecCompare == InitCompare /\ [][CallHasDataChanged]_vars

\* ================================================================ claims

Last(q) == q[Len(q)]

\* The rows of entity `vid`, in append order
RowsOf(vid) == {i \in 1..Len(db) : db[i].cols.vehicleId = vid}

\* Rows i < j are consecutive rows of one entity
Consecutive(i, j) ==
  /\ i < j
  /\ db[i].cols.vehicleId.t # "null"
  /\ db[j].cols.vehicleId = db[i].cols.vehicleId
  /\ \A k \in RowsOf(db[i].cols.vehicleId) : ~(i < k /\ k < j)

\* C1: for every entity, no two consecutive rows of the history hold
\* snapshots that the change detection finds equal.
C1_NoConsecutiveEqual ==
  \A i, j \in 1..Len(db) :
    Consecutive(i, j) => _has_data_changed(db[j].cols, <<db[i].cols>>)

\* C2: within one entity iteration login_with_selenium is called at most once
\* and at most two requests are sent, however often the API answers 401/403.
C2_BoundedReauth == iterLogins <= 1 /\ iterRequests <= 2

\* C3: every entity iteration ends, whatever the remote API answers: from the
\* fetch of an entity the scheduler reaches the pause after it (or returns).
C3_IterationEnds == (pc = "fetch") ~> (pc \in {"pause", "sleep", "returned"})

\* C5: once the polling loop runs, the scheduler leaves it only on the
\* cancellation signal, never on an error.
C5_OnlyCancelLeavesLoop ==
  (pc = "returned" /\ cycle_no > 0) => exit_cause = "cancel"

\* A step of store_location_data that met no storage error
StoreStep ==
  /\ pc = "fetched"
  /\ data.kind = "dict"
  /\ pc' = "pause"
  /\ last_result' \in {"Stored", "Skipped"}

\* C4 (state part): no entity of the cycle is passed over, whichever fetches
\* failed: the entities before the current one were all requested, a cycle
\* that reaches its sleep requested every entity, and a cycle with a failed
\* fetch is left only by cancellation or by a storage error.
C4_State ==
  /\ pc \in {"fetch", "relogin", "fetched"} => 1..(idx - 1) \subseteq fetched_in_cycle
  /\ pc = "pause" => 1..idx \subseteq fetched_in_cycle
  /\ pc = "sleep" => fetched_in_cycle = 1..Len(vehicle_ids)
  /\ (pc = "returned" /\ failed_in_cycle # {}) =>
       (exit_cause = "cancel" \/ last_result = "StorageFailed")

\* C4 (step part): in a cycle in which a fetch failed, a snapshot fetched for
\* another entity that differs from that entity's last record is stored.
C4_Step ==
  (/\ StoreStep
   /\ failed_in_cycle # {}
   /\ \A last_record \in LastRecords(data.body.vehicleId) :
        _has_data_changed(data.body, last_record))
    => db' = Inserted(data.body)

\* C4: a fetch that fails with a network or a parse error does not keep the
\* other entities of the cycle from being fetched and, if changed, stored.
C4_Isolation == [](C4_State) /\ [][C4_Step]_vars

\* C4 witness: the first cycle of the fleet ends with the fetch of vehicle 2
\* failed and the snapshots of vehicles 1 and 3 stored.
C4_Witness ==
  /\ pc = "sleep"
  /\ cycle_no = 1
  /\ failed_in_cycle = {2}
  /\ Len(db) = 2
  /\ db[1].cols.vehicleId = Num(1)
  /\ db[2].cols.vehicleId = Num(3)

\* C6: a successful fetch whose entity has no row in the history appends
\* exactly one row, written from the fetched object, unless the storage
\* itself fails.
C6_FirstObservation ==
  [][(/\ pc = "fetched"
      /\ data.kind = "dict"
      /\ MatchingRows(data.body.vehicleId) = {}
      /\ pc' = "pause"
      /\ last_result' # "StorageFailed")
       => (/\ Len(db') = Len(db) + 1
           /\ SubSeq(db', 1, Len(db)) = db
           /\ Last(db').fetched = data.body)]_vars

\* C6 witness: vehicle 2 is stored for the first time while the history
\* holds a row of vehicle 1.
C6_Witness ==
  /\ Len(db) = 2
  /\ last_result = "Stored"
  /\ db[1].cols.vehicleId = Num(1)
  /\ db[2].cols.vehicleId = Num(2)

\* The previous iteration stored the object it fetched, for the entity of the
\* object fetched now.
PreviousStored ==
  /\ pc = "fetched"
  /\ data.kind = "dict"
  /\ last_result = "Stored"
  /\ db # <<>>
  /\ data.body.vehicleId.t # "null"
  /\ Last(db).fetched.vehicleId = data.body.vehicleId

\* C7: when two consecutive successful fetches of an entity return snapshots
\* that are equal under the change detection, the second appends nothing.
C7_DedupIdempotence ==
  [][(/\ PreviousStored
      /\ ~_has_data_changed(data.body, <<Last(db).fetched>>)
      /\ StoreStep)
       => db' = db]_vars

\* C8: of two consecutive snapshots that differ only in speed, the second is
\* not stored when the speeds are 0.00005 apart and stored when they are
\* 0.0002 apart.
C8_ToleranceBoundary ==
  [][(/\ PreviousStored
      /\ StoreStep
      /\ data.body.speed.t = "num"
      /\ Last(db).fetched.speed.t = "num"
      /\ [data.body EXCEPT !.speed = Last(db).fetched.speed] = Last(db).fetched)
       => (/\ Abs(data.body.speed.n - Last(db).fetched.speed.n) = 1 => db' = db
           /\ Abs(data.body.speed.n - Last(db).fetched.speed.n) = 4
                => db' = Inserted(data.body))]_vars

\* C9: the constructor keeps the token of a parsed token file exactly when
\* the file is less than 12 hours old: time.time() - saved_at < 12 * 3600.
C9_ExpiryBoundary ==
  (pc = "constructed" /\ token_file.kind = "json") =>
    IF now < token_file.saved_at + ValidityWindow
      THEN access_token = token_file.access_token
      ELSE access_token = NoToken

\* C9 witness: a token saved exactly 12 hours before is dropped.
C9_Witness ==
  /\ pc = "constructed"
  /\ token_file.kind = "json"
  /\ now = token_file.saved_at + ValidityWindow
  /\ access_token = NoToken

\* C10: three cycles that fetch A, A and A at speed 25 leave two rows: A,
\* written by the first cycle, and the changed snapshot, written by the third.
C10_EndToEnd ==
  /\ scenario \in {"A", "AA"} =>
       /\ Len(db) = 1
       /\ db[1].id = 1
       /\ db[1].fetched = Base(SingleConfig[1])
  /\ scenario = "AAB" =>
       /\ Len(db) = 2
       /\ db[1].id = 1
       /\ db[1].fetched = Base(SingleConfig[1])
       /\ db[2].id = 2
       /\ db[2].fetched = [Base(SingleConfig[1]) EXCEPT !.speed = Num(500000)]

\* C10 witness: the third cycle of the scenario has run.
C10_Witness == scenario = "AAB" /\ cycle_no = 3 /\ pc = "sleep"

\* A GET request of fetch_vehicle_location is sent and answered in this step
RequestSent == pc = "fetch" /\ pc' \in {"fetched", "relogin"}

\* C11: every request of every entity iteration is sent with an active
\* credential: a token is held and it is younger than the validity window.
C11_ActiveCredential ==
  [][RequestSent =>
       (access_token # NoToken /\ now - token_time < ValidityWindow)]_vars

\* C12: a failed login never ends the scheduler, the login at startup
\* included: run_periodic_fetch does not return because a login failed.
C12_AcquisitionNotFatal == exit_cause # "login_failed"

\* C13: a call of fetch_vehicle_location leaves the token and the token file
\* as they were and starts no login, whatever the response.
C13_FetchHasNoSideEffect ==
  [][pc = "fetch" =>
       (access_token' = access_token /\ token_file' = token_file /\ pc' # "relogin")]_vars

\* C14 (state part): the response that leads to a login is no network or
\* parse failure.
C14_State == pc \in {"relogin", "saving"} => idx \notin failed_in_cycle

\* C14 (step part): a fetch that fails with another status, a timeout or an
\* undecodable body leaves the token and the token file untouched, starts no
\* login and returns None; the iteration then goes to its pause without
\* another request and without a row.
C14_Step ==
  /\ (pc = "fetch" /\ idx \in failed_in_cycle') =>
       /\ UNCHANGED <<access_token, token_file, iterLogins>>
       /\ pc' = "fetched"
       /\ data' = NoData
  /\ (pc = "fetched" /\ data = NoData /\ pc' # "returned") =>
       /\ pc' = "pause"
       /\ UNCHANGED <<db, access_token, token_file, iterRequests, iterLogins>>

\* C14: only 401/403 is an authentication failure; every other failed fetch
\* leaves the credential alone, triggers no login and no retry, and the
\* entity is abandoned for the cycle.
C14_ErrorClassification == [](C14_State) /\ [][C14_Step]_vars

\* C14 witness: an iteration whose single request failed to decode stands at
\* its pause, the token still held, no login made.
C14_Witness ==
  /\ pc = "pause"
  /\ idx \in failed_in_cycle
  /\ last_result = "ParseFailed"
  /\ access_token # NoToken
  /\ iterRequests = 1
  /\ iterLogins = 0

\* C17: whenever the token file changes it is removed or holds the complete
\* object of the token now held: no reader ever finds it empty or partial.
C17_AtomicSave ==
  [][token_file' # token_file =>
       \/ token_file' = NoFile
       \/ token_file' = TokenFile(access_token', token_time')]_vars

\* C18: after the constructor has read a token file that is absent, not
\* parseable or not of the shape {access_token, saved_at: number}, no token
\* is held.
C18_BadFileGivesNoToken ==
  (pc = "constructed" /\ token_file.kind # "json") => access_token = NoToken

\* C19 (state part): while the loop runs without a token, a load of the token
\* file gives no token.
C19_State ==
  (cycle_no > 0 /\ access_token = NoToken) => LoadedToken(token_file, now) = NoToken

\* C19 (step part): a 401/403 response clears the token and removes the file.
C19_Step ==
  (pc = "fetch" /\ pc' = "relogin") => (access_token' = NoToken /\ token_file' = NoFile)

C20_StorageFailureLeavesHistory ==
  [][(/\ pc = "fetched"
      /\ Truthy(data)
      /\ last_result' = "StorageFailed"
      /\ exit_cause' # "cancel")
       => (db' = db /\ pc' = "pause")]_vars

\* C15: of the concurrent fetches that got 401/403 for one credential, at
\* most one is in login_with_selenium at any instant.
C15_SingleFlight ==
  \A t1, t2 \in Threads :
    (/\ t1 # t2
     /\ calls[t1].at = "login"
     /\ calls[t2].at = "login")
      => calls[t1].token # calls[t2].token

\* C16: two concurrent store_location_data calls for one entity never both
\* insert after reading the same last record.
C16_StoreSerialized ==
  \A t1, t2 \in Threads :
    (/\ t1 # t2
     /\ calls[t1].inserted
     /\ calls[t2].inserted
     /\ calls[t1].data.body.vehicleId = calls[t2].data.body.vehicleId)
      => calls[t1].last_record # calls[t2].last_record

\* C21: cancellation takes effect only at a pause: the step in which the
\* scheduler stops on the signal starts between two entities or two cycles,
\* never while a fetch or a store is under way.
C21_CancelOnlyAtPause ==
  [][(exit_cause' = "cancel" /\ exit_cause # "cancel")
       => pc \in {"pause", "sleep", "cycle"}]_vars

\* The claimed comparison of one field: |a - b| > 1e-4 (2 units) when both
\* are numbers, inequality otherwise
C22_Differs(a, b) ==
  IF a.t = "num" /\ b.t = "num" THEN Abs(a.n - b.n) > 2 ELSE a # b

\* C22: with a last snapshot present, _has_data_changed returns true exactly
\* when one of the compared fields differs; source timestamps and identifiers
\* play no part.
C22_ChangedIffComparedFieldDiffers ==
  (calls.result # <<>> /\ calls.old_data # <<>>) =>
    (calls.result[1] <=>
       \E f \in {"latitude", "longitude", "speed", "status", "rpm"} :
         C22_Differs(calls.new_data[f], calls.old_data[1][f]))

\* C22 witness: two snapshots 0.0001 apart in speed, with different source
\* timestamps and identifiers, were found unchanged.
C22_Witness ==
  /\ calls.result = <<FALSE>>
  /\ calls.old_data # <<>>
  /\ Abs(calls.new_data.speed.n - calls.old_data[1].speed.n) = 2
  /\ calls.new_data.timeStamp # calls.old_data[1].timeStamp
  /\ calls.new_data.vehicleId # calls.old_data[1].vehicleId

\* C23: for every entity with rows, _get_last_record can only return the row
\* appended last for it.
C23_LastRecordIsNewest ==
  \A i \in 1..Len(db) :
    db[i].cols.vehicleId.t # "null" =>
      LastRecords(db[i].cols.vehicleId) =
        {<<db[CHOOSE j \in RowsOf(db[i].cols.vehicleId) :
                 \A k \in RowsOf(db[i].cols.vehicleId) : k <= j].cols>>}

\* C24 (step part): every step leaves the rows it found as they were, in
\* their order, and at most appends to them.
C24_Step == Len(db') >= Len(db) /\ SubSeq(db', 1, Len(db)) = db

\* C24: the table is append-only and the ids of its rows increase strictly.
C24_AppendOnly ==
  /\ [][C24_Step]_vars
  /\ [](\A i, j \in 1..Len(db) : i < j => db[i].id < db[j].id)

\* C24 witness: two rows of one vehicle, appended one after the other.
C24_Witness ==
  /\ Len(db) = 2
  /\ db[1].id = 1
  /\ db[2].id = 2
  /\ db[1].cols.vehicleId = db[2].cols.vehicleId
  /\ db[1].fetch_timestamp < db[2].fetch_timestamp

\* The token file holds a credential saved before this process started and
\* younger than the validity window at its start
PersistedYoung ==
  /\ token_file.kind = "json"
  /\ token_file.saved_at < StartTime
  /\ StartTime - token_file.saved_at < ValidityWindow

\* C25 (state part): up to its first request a process that found a young
\* persisted credential holds exactly that token.
C25_State ==
  (/\ PersistedYoung
   /\ \/ pc = "cycle" /\ cycle_no = 0
      \/ pc = "fetch" /\ cycle_no = 1 /\ idx = 1 /\ iterRequests = 0)
    => (access_token = token_file.access_token /\ token_time = token_file.saved_at)

\* C25 (step part): a login, successful or not, is made only while no token
\* is held.
C25_Step ==
  (/\ pc # "new"
   /\ \/ token_time' # token_time
      \/ iterLogins' > iterLogins
      \/ exit_cause' = "login_failed")
    => access_token = NoToken

\* C25: login_with_selenium is called only when no valid token is held: not
\* at startup when a young token was loaded, and in the loop only after a
\* 401/403 has cleared the token.
C25_AcquireOnlyWithoutToken == [](C25_State) /\ [][C25_Step]_vars

\* C25 witness: the first request was sent with the persisted token and
\* without a login.
C25_Witness ==
  /\ PersistedYoung
  /\ pc = "fetched"
  /\ cycle_no = 1
  /\ iterRequests = 1
  /\ iterLogins = 0
  /\ access_token = token_file.access_token

\* login_with_selenium returns True in this step
LoginReturns ==
  /\ pc' \in {"cycle", "fetch"}
  /\ \/ pc = "saving"
     \/ pc \in {"constructed", "relogin"} /\ access_token = NoToken /\ access_token' # NoToken

\* C26: when a login has succeeded, the token file holds the new token with
\* its acquisition time, as does the tracker.
C26_OneCredential ==
  [][LoginReturns => token_file' = TokenFile(access_token', token_time')]_vars

\* C27: no request is sent without a token.
C27_RequestCarriesToken == [][RequestSent => access_token # NoToken]_vars

\* C28 (state part): the entities requested in the cycle are the first ones
\* of vehicle_ids, up to the current one; at the end of the for loop all.
C28_State ==
  /\ pc \in {"fetch", "relogin", "saving", "fetched", "pause"} =>
       fetched_in_cycle \in {1..(idx - 1), 1..idx}
  /\ pc = "sleep" => fetched_in_cycle = 1..Len(vehicle_ids)

\* C28 (step part): the loop moves from an entity to the next one only, after
\* a pause of 2 s; a cycle begins only from the top of the while loop, which
\* after the first cycle is reached only from the end of the for loop, all
\* entities requested, by a sleep of polling_interval.
C28_Step ==
  /\ idx' # idx =>
       \/ pc = "pause" /\ idx' = idx + 1
       \/ pc = "cycle" /\ idx' = 1
  /\ (pc = "pause" /\ pc' \in {"fetch", "sleep"}) => now' = now + VehicleDelay
  /\ cycle_no' # cycle_no => (pc = "cycle" /\ cycle_no' = cycle_no + 1)
  /\ (pc' = "cycle" /\ pc # "cycle" /\ cycle_no > 0) =>
       /\ pc = "sleep"
       /\ fetched_in_cycle = 1..Len(vehicle_ids)
       /\ now' = now + polling_interval

\* C28: in a cycle the entities are processed in configuration order, each
\* followed by a pause, and the next cycle starts only after all of them and
\* the sleep of the polling interval.
C28_CycleOrdering == [](C28_State) /\ [][C28_Step]_vars

\* C28 witness: the second cycle of the fleet is about to fetch its first
\* vehicle, three pauses and one polling interval after the start.
C28_Witness ==
  /\ pc = "fetch"
  /\ cycle_no = 2
  /\ idx = 1
  /\ Len(vehicle_ids) = 3
  /\ now = StartTime + 3 * VehicleDelay + polling_interval

\* C29: every row, read back, compares as unchanged against the object it
\* was written from.
C29_RoundTrip ==
  \A i \in 1..Len(db) : ~_has_data_changed(db[i].fetched, <<db[i].cols>>)

\* C30: a row written in the iteration of vehicle_ids[idx] is a row of that
\* vehicle.
C30_StoredUnderConfiguredEntity ==
  [][(pc = "fetched" /\ Len(db') = Len(db) + 1)
       => Last(db').cols.vehicleId = Num(vehicle_ids[idx])]_vars

\* C31: an iteration in which the read of the last record failed (its store
\* is the one recorded as "StoredBlind") appends no row.
C31_FailedReadAppendsNothing ==
  [][(/\ pc = "fetched"
      /\ Truthy(data)
      /\ pc' = "pause"
      /\ last_result' = "StoredBlind")
       => db' = db]_vars

\* C32: after a store that met no storage error, the entity of the fetched
\* object has a last record, and the fetched object compares as unchanged
\* against it.
C32_LastRecordMatchesFetched ==
  [][StoreStep =>
       \A fetched \in {data.body} :
         \A last_record \in LastRecords(fetched.vehicleId)' :
           /\ last_record # <<>>
           /\ ~_has_data_changed(fetched, last_record)]_vars

\* C33: when run_periodic_fetch has returned, the connection is closed.
C33_ClosedOnReturn == pc = "returned" => ~db_open

====
